---- MODULE Spec2Model ----
(***************************************************************************)
(* Model of crypto_market_monitor.py: the baseline file news_economic.json,*)
(* module start-up (initialize_data_file) and check_and_log_data, run      *)
(* repeatedly by an external scheduler.                                    *)
(*                                                                         *)
(* Python values: None is 0 for indicator values (the providers' values    *)
(* are positive numbers 1..MaxValue), and "None" for dates.                *)
(***************************************************************************)
EXTENDS Integers, Sequences, FiniteSets, TLC

\* Indicator values are 1..MaxValue.
MaxValue == 2

None == 0
NoDate == "None"
Values == 1..MaxValue
Dates == {"2024-01", "2024-02"}

\* The keys of empty_data / indicators / influence, in the order of the dict
\* literals (dicts keep insertion order: the loop of line 275 follows it).
Names ==
    << "Unemployment Rate", "Real GDP (FRED)", "Consumer Price Index (CPI)",
       "Fed Interest Rate Policy", "Producer Price Index (PPI)",
       "Non-Farm Payroll Report", "Retail Sales Data", "Fear and Greed Index" >>

\* The model runs the program on the first three of them: the loop treats
\* every key alike, and no statement relates two keys.
Tracked == << Names[1], Names[2], Names[3] >>
NumInd == Len(Tracked)
Keys == {Tracked[i] : i \in 1..NumInd}

\* ------------------------------------------------------------------------
\* The baseline file and the JSON values it can hold.

\* A well-formed entry of the file: {"value": v, "date": d}.
Rec(v, d) == [shape |-> "record", value |-> v, date |-> d]
\* An entry that is not a JSON object (a number, a string, null).
ScalarEntry == [shape |-> "scalar", value |-> None, date |-> NoDate]
\* A JSON object whose "value" is a string.
StrValueEntry == [shape |-> "strvalue", value |-> None, date |-> NoDate]

NoEntries == [k \in {} |-> Rec(None, NoDate)]

Missing == [kind |-> "missing", top |-> "none", entries |-> NoEntries]
Empty == [kind |-> "empty", top |-> "none", entries |-> NoEntries]
\* Text json.load rejects: a truncated dump, arbitrary garbage.
Garbage == [kind |-> "garbage", top |-> "none", entries |-> NoEntries]
JsonDict(e) == [kind |-> "json", top |-> "dict", entries |-> e]
\* Parseable JSON whose top level is not an object.
JsonList == [kind |-> "json", top |-> "list", entries |-> NoEntries]

empty_data == [k \in Keys |-> Rec(None, NoDate)]

\* initialize_data_file: the file after module start-up.
NeedsInit(f) == f.kind \in {"missing", "empty"}
initialize_data_file(f) == IF NeedsInit(f) THEN JsonDict(empty_data) ELSE f

\* Lines 210-221: prev_data after the load.  A missing or empty file and a
\* JSONDecodeError all leave prev_data = {}.
EmptyDict == [top |-> "dict", entries |-> NoEntries]
LoadPrevData(f) ==
    IF f.kind = "json" THEN [top |-> f.top, entries |-> f.entries] ELSE EmptyDict

\* ------------------------------------------------------------------------
\* The fetchers.  A response of a provider is one of:
\*   network_error  requests.get/post raises
\*   http_error     status_code # 200
\*   malformed      status 200, but response.json() raises, or the data row
\*                  lacks a field, or float() rejects its value
\*   no_data        status 200, the result keys are missing or the list is empty
\*   ok             status 200, a data row with value v and label d
Resp(k, v, d) == [kind |-> k, value |-> v, date |-> d]
\* d is the label the providers give their latest observation at the time of
\* the run.
Responses(d) ==
    {Resp(k, None, NoDate) :
        k \in {"network_error", "http_error", "malformed", "no_data"}}
    \cup {Resp("ok", v, d) : v \in Values}

\* What a fetcher hands back: status "ok" with (value, date), status "none"
\* with (None, None), or status "raised" when an exception leaves it.
Obs(s, v, d) == [status |-> s, value |-> v, date |-> d]
Unset == Obs("unset", None, NoDate)

get_indicator(r) ==
    CASE r.kind = "network_error" -> Obs("raised", None, NoDate)
      [] r.kind = "http_error" -> Obs("none", None, NoDate)
      [] r.kind = "malformed" -> Obs("raised", None, NoDate)
      [] r.kind = "no_data" -> Obs("none", None, NoDate)
      [] OTHER -> Obs("ok", r.value, r.date)

\* ------------------------------------------------------------------------
\* The notifier.  The transport answers 200, answers something else, or raises.
NotifyOutcomes == {"status_200", "status_other", "exception"}

\* The function without its try/except: the transport's exception leaves it.
send_message_unguarded(o) ==
    IF o = "status_200" THEN "sent" ELSE IF o = "exception" THEN "raised" ELSE "logged"

\* send_message_to_telegram: "sent", "logged" (the failure is logged and
\* swallowed) or "raised" (an exception leaves the function).
send_message_to_telegram(o) == IF o = "status_200" THEN "sent" ELSE "logged"

\* ------------------------------------------------------------------------
\* The impact catalog (lines 238-271); the texts are transliterated.
influence ==
    [k \in {Names[i] : i \in 1..8} |->
        CASE k = "Unemployment Rate" ->
               [increase |-> "bearish :(", decrease |-> "bullish :)"]
          [] k = "Real GDP (FRED)" ->
               [increase |-> "good for economy, bullish :)",
                decrease |-> "bad for economy, bearish :("]
          [] k = "Consumer Price Index (CPI)" ->
               [increase |-> "inflation hedge, bullish :)",
                decrease |-> "lower inflation, no clear effect :|"]
          [] k = "Fed Interest Rate Policy" ->
               [increase |-> "rates up, bearish :(", decrease |-> "rates down, bullish :)"]
          [] k = "Producer Price Index (PPI)" ->
               [increase |-> "inflation hedge, bullish :)",
                decrease |-> "lower production cost, no clear effect :|"]
          [] k = "Non-Farm Payroll Report" ->
               [increase |-> "jobs up, bullish :)", decrease |-> "jobs down, bearish :("]
          [] k = "Retail Sales Data" ->
               [increase |-> "spending up, bullish :)",
                decrease |-> "spending down, bearish :("]
          [] OTHER ->
               [increase |-> "fear weaker, bullish :)",
                decrease |-> "fear stronger, bearish :("]]

\* ------------------------------------------------------------------------
\* One iteration of the loop of lines 275-293.

\* Line 277: prev_data.get(key, {}).get('value').  It raises AttributeError
\* when prev_data is not a dict or its entry is not one; isstr marks a value
\* that is a string.
Lookup(r, s, v) == [raises |-> r, isstr |-> s, value |-> v]
PrevValue(pd, key) ==
    IF pd.top # "dict" THEN Lookup(TRUE, FALSE, None)
    ELSE IF key \notin DOMAIN pd.entries THEN Lookup(FALSE, FALSE, None)
    ELSE IF pd.entries[key].shape = "scalar" THEN Lookup(TRUE, FALSE, None)
    ELSE IF pd.entries[key].shape = "strvalue" THEN Lookup(FALSE, TRUE, None)
    ELSE Lookup(FALSE, FALSE, pd.entries[key].value)

\* The comparison taking the stored record for its value: a dict never equals
\* a float.
Changed_RecordForValue(prev_value, cur) == TRUE

\* The comparison written with > for !=.
Changed_GreaterOnly(prev_value, cur) == cur.value > prev_value

\* Line 278: prev_value != current_value (cur is the fetched observation).
Changed(prev_value, cur) == prev_value # cur.value

\* The rule without its None guard, None counting as 0.
Direction_NoNoneGuard(prev_value, current_value) ==
    IF current_value > prev_value THEN "increase" ELSE "decrease"

\* Line 283.
Direction(prev_value, current_value) ==
    IF prev_value # None /\ current_value > prev_value THEN "increase" ELSE "decrease"

\* Lines 286-287: the text handed to the notifier.
change_message(key, prev_value, current_value, direction, impact) ==
    [key |-> key,
     prev |-> IF prev_value # None THEN ToString(prev_value) ELSE "no record",
     value |-> current_value,
     glyph |-> IF direction = "increase" THEN "up: increase" ELSE "down: decrease",
     impact |-> impact]

\* Lines 279-282: new_data[key] = {'value': ..., 'date': ...}.
SetItem(d, key, rec) ==
    [k \in (DOMAIN d) \cup {key} |-> IF k = key THEN rec ELSE d[k]]

\* The dump of new_data alone.
Merge_NewOnly(prev, new) == new

\* Line 297: {**prev_data, **new_data}.
Merge(prev, new) ==
    [k \in (DOMAIN prev) \cup (DOMAIN new) |-> IF k \in DOMAIN new THEN new[k] ELSE prev[k]]

\* The write done whether or not anything changed.
ShouldCommit_Always(updated) == TRUE

\* Line 296: if updated_indicators.
ShouldCommit(updated) == updated # << >>

\* ------------------------------------------------------------------------
VARIABLES
    file,               \* news_economic.json
    pc,                 \* where the current run stands
    prev_data,          \* check_and_log_data's locals
    indicators,
    idx,                \* position of the loop of line 275
    new_data,
    updated_indicators,
    sent,               \* the messages handed to the notifier in this run
    failed,             \* the keys whose message the notifier did not deliver
    found,              \* the kind of file this run's start-up found
    loaded,             \* the file as this run's load found it
    initWrites,         \* writes of the file by this run's start-up
    commitWrites,       \* writes of the file by this run's check_and_log_data
    crashedAt,          \* where an exception ended this run
    lastObs             \* per key, the latest non-null value fetched in the
                        \* current sequence of runs that ran to their end; an
                        \* aborted run ends the sequence, and the next one
                        \* starts from the values the file then holds

vars ==
    << file, pc, prev_data, indicators, idx, new_data, updated_indicators, sent,
       failed, found, loaded, initWrites, commitWrites, crashedAt, lastObs >>

locals == << prev_data, indicators, idx, new_data, updated_indicators >>
history == << lastObs >>

\* The baseline value the file f holds for key k (None when it holds none).
BaselineValue(f, k) ==
    IF f.kind = "json" /\ f.top = "dict" /\ k \in DOMAIN f.entries
       /\ f.entries[k].shape = "record"
    THEN f.entries[k].value
    ELSE None
FileValues(f) == [k \in Keys |-> BaselineValue(f, k)]
AllUnset == [k \in Keys |-> Unset]

\* A run before its first statement.
Fresh ==
    /\ pc = "start"
    /\ prev_data = EmptyDict
    /\ indicators = AllUnset
    /\ idx = 1
    /\ new_data = NoEntries
    /\ updated_indicators = << >>
    /\ sent = << >>
    /\ failed = {}
    /\ found = "unknown"
    /\ loaded = Missing
    /\ initWrites = 0
    /\ commitWrites = 0
    /\ crashedAt = "nowhere"

\* The files the program itself leaves behind: none before the first run; an
\* empty or truncated one when a write was cut short; otherwise what start-up
\* or a commit wrote (reached by running).
ProgramFiles == {Missing, Empty, Garbage}

\* Files edited from outside: parseable JSON of another shape.
BadEntries == {ScalarEntry, StrValueEntry}
ForeignFiles ==
    {JsonList}
    \cup {JsonDict([k \in Keys |-> IF k = bad THEN e ELSE Rec(1, "2024-01")]) :
            bad \in Keys, e \in BadEntries}

Init ==
    /\ file \in ProgramFiles
    /\ Fresh
    /\ lastObs = FileValues(file)

InitAnyFile ==
    /\ file \in ProgramFiles \cup ForeignFiles
    /\ Fresh
    /\ lastObs = FileValues(file)

\* Line 35: module start-up.
Startup ==
    /\ pc = "start"
    /\ file' = initialize_data_file(file)
    /\ initWrites' = IF NeedsInit(file) THEN 1 ELSE 0
    /\ found' = file.kind
    /\ pc' = "load"
    /\ UNCHANGED << locals, sent, failed, loaded, commitWrites, crashedAt, history >>

\* Lines 210-221.
Load ==
    /\ pc = "load"
    /\ prev_data' = LoadPrevData(file)
    /\ loaded' = file
    /\ pc' = "fetch"
    /\ UNCHANGED << file, indicators, idx, new_data, updated_indicators, sent, failed,
                    found, initWrites, commitWrites, crashedAt, history >>

\* Lines 224-233: the dict literal calls the fetchers in order; the first one
\* that raises ends the run, and the later ones are never called.
FirstRaise(obs) ==
    IF \E i \in 1..NumInd : obs[Tracked[i]].status = "raised"
    THEN CHOOSE i \in 1..NumInd :
            /\ obs[Tracked[i]].status = "raised"
            /\ \A j \in 1..(i - 1) : obs[Tracked[j]].status # "raised"
    ELSE 0

PosOf == [key \in Keys |-> CHOOSE i \in 1..NumInd : Tracked[i] = key]
Pos(key) == PosOf[key]

Latest(old, obs) ==
    [k \in Keys |-> IF obs[k].value # None THEN obs[k].value ELSE old[k]]

FetchAll ==
    /\ pc = "fetch"
    /\ \E d \in Dates : \E resp \in [Keys -> Responses(d)] :
        LET obs == [k \in Keys |-> get_indicator(resp[k])]
            r == FirstRaise(obs)
        IN  IF r = 0
            THEN /\ indicators' = obs
                 /\ pc' = "reconcile"
                 /\ lastObs' = Latest(lastObs, obs)
                 /\ UNCHANGED crashedAt
            ELSE /\ indicators' = [k \in Keys |-> IF Pos(k) <= r THEN obs[k] ELSE Unset]
                 /\ pc' = "crashed"
                 /\ crashedAt' = "fetch"
                 /\ lastObs' = FileValues(file)
    /\ UNCHANGED << file, prev_data, idx, new_data, updated_indicators, sent, failed,
                    found, loaded, initWrites, commitWrites >>

\* Lines 275-293, one key of the loop.
Crash(where) ==
    /\ pc' = "crashed"
    /\ crashedAt' = where
    /\ lastObs' = FileValues(file)

Reconcile ==
    /\ pc = "reconcile"
    /\ idx <= NumInd
    /\ LET key == Tracked[idx]
           cur == indicators[key]
           prev == PrevValue(prev_data, key)
       IN  IF cur.value = None
           THEN /\ idx' = idx + 1
                /\ UNCHANGED << pc, new_data, updated_indicators, sent, failed,
                                crashedAt, lastObs >>
           ELSE IF prev.raises
           THEN /\ Crash("reconcile")
                /\ UNCHANGED << idx, new_data, updated_indicators, sent, failed >>
           ELSE IF ~(prev.isstr \/ Changed(prev.value, cur))
           THEN /\ idx' = idx + 1
                /\ UNCHANGED << pc, new_data, updated_indicators, sent, failed,
                                crashedAt, lastObs >>
           ELSE IF prev.isstr
           THEN \* line 283: float > str raises TypeError
                /\ new_data' = SetItem(new_data, key, Rec(cur.value, cur.date))
                /\ Crash("reconcile")
                /\ UNCHANGED << idx, updated_indicators, sent, failed >>
           ELSE \E o \in NotifyOutcomes :
                LET direction == Direction(prev.value, cur.value)
                    impact == influence[key][direction]
                    msg == change_message(key, prev.value, cur.value, direction, impact)
                    res == send_message_to_telegram(o)
                IN  /\ new_data' = SetItem(new_data, key, Rec(cur.value, cur.date))
                    /\ sent' = Append(sent, msg)
                    /\ failed' = IF res = "sent" THEN failed ELSE failed \cup {key}
                    /\ IF res = "raised"
                       THEN /\ Crash("notify")
                            /\ UNCHANGED << idx, updated_indicators >>
                       ELSE /\ updated_indicators' = Append(updated_indicators, key)
                            /\ idx' = idx + 1
                            /\ UNCHANGED << pc, crashedAt, lastObs >>
    /\ UNCHANGED << file, prev_data, indicators, found, loaded, initWrites, commitWrites >>

\* Line 296, after the loop: nothing to write.
NoCommit ==
    /\ pc = "reconcile"
    /\ idx > NumInd
    /\ ~ShouldCommit(updated_indicators)
    /\ pc' = "done"
    /\ UNCHANGED << file, locals, sent, failed, found, loaded, initWrites, commitWrites,
                    crashedAt, history >>

\* Line 299: open(NEWS_FILE_PATH, 'w') truncates the file.
CommitOpen ==
    /\ pc = "reconcile"
    /\ idx > NumInd
    /\ ShouldCommit(updated_indicators)
    /\ file' = Empty
    /\ commitWrites' = commitWrites + 1
    /\ pc' = "writing"
    /\ UNCHANGED << locals, sent, failed, found, loaded, initWrites, crashedAt, history >>

\* Line 300 and the end of the with block: the merged mapping is on disk.
\* json.dump writes a float by its repr and a string as it is, and json.load
\* reads both back exactly, so the record read by the next run is the record
\* written.
CommitDump ==
    /\ pc = "writing"
    /\ file' = JsonDict(Merge(prev_data.entries, new_data))
    /\ pc' = "done"
    /\ UNCHANGED << locals, sent, failed, found, loaded, initWrites, commitWrites, crashedAt,
                    history >>

\* The process is killed or interrupted: its locals are gone, and what is
\* left of the run is the file and the messages it sent.  While the file is
\* open for writing it is left empty (nothing flushed) or holding a part of the
\* dump.
Interrupt ==
    /\ pc \in {"load", "fetch", "reconcile", "writing"}
    /\ pc' = "interrupted"
    /\ file' \in (IF pc = "writing" THEN {Empty, Garbage} ELSE {file})
    /\ lastObs' = FileValues(file')
    /\ prev_data' = EmptyDict
    /\ indicators' = AllUnset
    /\ idx' = 1
    /\ new_data' = NoEntries
    /\ updated_indicators' = << >>
    /\ failed' = {}
    /\ UNCHANGED << sent, found, loaded, initWrites, commitWrites, crashedAt >>

\* The scheduler starts the program again.
NextRun ==
    /\ pc \in {"done", "crashed", "interrupted"}
    /\ pc' = "start"
    /\ prev_data' = EmptyDict
    /\ indicators' = AllUnset
    /\ idx' = 1
    /\ new_data' = NoEntries
    /\ updated_indicators' = << >>
    /\ sent' = << >>
    /\ failed' = {}
    /\ found' = "unknown"
    /\ loaded' = Missing
    /\ initWrites' = 0
    /\ commitWrites' = 0
    /\ crashedAt' = "nowhere"
    /\ UNCHANGED << file, lastObs >>

Next ==
    \/ Startup
    \/ Load
    \/ FetchAll
    \/ Reconcile
    \/ NoCommit
    \/ CommitOpen
    \/ CommitDump
    \/ Interrupt
    \/ NextRun

Spec == Init /\ [][Next]_vars

SpecAnyFile == InitAnyFile /\ [][Next]_vars

\* ------------------------------------------------------------------------
\* What the claims speak of.

\* f is a mapping from indicator names to {value, date} records.
WellFormed(f) ==
    /\ f.kind = "json"
    /\ f.top = "dict"
    /\ \A k \in DOMAIN f.entries : f.entries[k].shape = "record"

\* The entry of key k in the mapping e, and in the file f.
Absent == [shape |-> "absent", value |-> None, date |-> NoDate]
Item(e, k) == IF k \in DOMAIN e THEN e[k] ELSE Absent
Entry(f, k) == Item(f.entries, k)
\* The entry of k is the same in the files f and g (absent in both, or equal).
SameEntry(f, g, k) == Entry(f, k) = Entry(g, k)

\* The locals indicators, idx, new_data are those of a run past its fetches.
InLoop == pc \in {"reconcile", "writing", "done"}
\* The loop of line 275 has finished the iteration of key k.
Processed(k) == InLoop /\ Pos(k) < idx
\* How many messages about k were handed to the notifier in this run.
Notifications(k) == Cardinality({i \in 1..Len(sent) : sent[i].key = k})
\* The fetch of k gave a value that differs from the baseline the run loaded.
Differs(k) == indicators[k].value # None /\ indicators[k].value # BaselineValue(loaded, k)
FreshRec(k) == Rec(indicators[k].value, indicators[k].date)

\* C1: a run that ran to its end leaves the file present and not empty; and a
\* run that finds the file so, as the run following it does, and whose every
\* fetch gives None or the value the baseline holds, hands nothing to the
\* notifier and never writes the file, at start-up or at the commit.
FoundBaseline == found \in {"json", "garbage"}
SameUpstream ==
    \A k \in Keys : indicators[k].value \in {None, BaselineValue(loaded, k)}
C1_Idempotence ==
    /\ pc = "done" => file.kind \in {"json", "garbage"}
    /\ (FoundBaseline /\ InLoop /\ SameUpstream)
        => /\ sent = << >>
           /\ initWrites = 0
           /\ commitWrites = 0
           /\ file = loaded
\* The second of two runs: the first one committed the values the second loads.
C1_Witness ==
    /\ pc = "done"
    /\ FoundBaseline
    /\ SameUpstream
    /\ \E k \in Keys : indicators[k].value # None
    /\ \E k \in Keys : indicators[k].value = None /\ BaselineValue(loaded, k) # None

\* C2: for every key the loop has processed with a non-null fetched value,
\* there is a notification and an override exactly when the value differs
\* from the baseline value; with an equal value there is none, and the entry
\* the finished run leaves in the file is the loaded one, date included,
\* whatever date was fetched.
C2_StrictInequalityGating ==
    \A k \in Keys :
        (Processed(k) /\ indicators[k].value # None) =>
            /\ Notifications(k) = (IF Differs(k) THEN 1 ELSE 0)
            /\ (k \in DOMAIN new_data) <=> Differs(k)
            /\ Differs(k) => Item(new_data, k) = FreshRec(k)
            /\ (pc = "done" /\ Differs(k)) => Entry(file, k) = FreshRec(k)
            /\ (pc = "done" /\ ~Differs(k)) => SameEntry(file, loaded, k)
C2_Witness ==
    /\ pc = "done"
    /\ file # loaded
    /\ \E k \in Keys :
        /\ indicators[k].value # None
        /\ ~Differs(k)
        /\ indicators[k].date # Entry(loaded, k).date
        /\ Entry(file, k) = Entry(loaded, k)
        /\ Notifications(k) = 0

\* C3: in a run where the fetch of A gave None and the fetch of B gave a
\* value that differs from B's baseline, the run does not abort, and when it
\* has ended it has notified once for B, the file holds B's fresh record, and
\* the entries of A and of every key whose value did not change are the
\* loaded ones.
C3_PartialFailureIsolation ==
    \A A \in Keys, B \in Keys :
        (/\ pc # "interrupted"
         /\ indicators[A].status = "none"
         /\ indicators[B].status = "ok"
         /\ indicators[B].value # BaselineValue(loaded, B))
        => /\ pc # "crashed"
           /\ pc = "done" =>
                /\ Notifications(B) = 1
                /\ Entry(file, B) = FreshRec(B)
                /\ SameEntry(file, loaded, A)
                /\ \A k \in Keys : ~Differs(k) => SameEntry(file, loaded, k)

\* C4: between runs the file holds, for every key fetched non-null in the
\* runs of the current sequence of completed runs, the latest such value.
BetweenRuns == pc \in {"done", "start", "load"}
C4_BaselineCompleteness ==
    BetweenRuns =>
        \A k \in Keys : lastObs[k] # None => BaselineValue(file, k) = lastObs[k]
C4_Witness ==
    /\ pc = "done"
    /\ file # loaded
    /\ \E k \in Keys : indicators[k].value = None /\ lastObs[k] # None
    /\ \E k \in Keys : Differs(k)

Rising(m) ==
    /\ BaselineValue(loaded, m.key) # None
    /\ m.value > BaselineValue(loaded, m.key)
C6_DirectionRule ==
    \A i \in 1..Len(sent) :
        LET m == sent[i]
        IN  /\ Rising(m) =>
                /\ m.glyph = "up: increase"
                /\ m.impact = influence[m.key].increase
            /\ ~Rising(m) =>
                /\ m.glyph = "down: decrease"
                /\ m.impact = influence[m.key].decrease
            /\ (m.prev = "no record") <=> (BaselineValue(loaded, m.key) = None)
            /\ InLoop => m.value = indicators[m.key].value
C6_Witness ==
    /\ pc = "done"
    /\ \E i \in 1..Len(sent) : BaselineValue(loaded, sent[i].key) = None
    /\ \E i \in 1..Len(sent) : Rising(sent[i])
    /\ \E i \in 1..Len(sent) :
        /\ BaselineValue(loaded, sent[i].key) # None
        /\ ~Rising(sent[i])

\* C7: no fetcher raises, and no run ends in its fetches.
C7_FetchersNeverRaise ==
    /\ \A k \in Keys : indicators[k].status # "raised"
    /\ crashedAt # "fetch"

\* C8: a run that loaded a file that is anything but a mapping from names to
\* records does not end in an exception of the loop, and treats every key it
\* processes as never observed: a non-null fetched value is notified once,
\* with no previous value.
C8_LoadFailsOpen ==
    (pc \in {"fetch", "reconcile", "writing", "done", "crashed"} /\ ~WellFormed(loaded))
        => /\ crashedAt # "reconcile"
           /\ \A k \in Keys :
                (Processed(k) /\ indicators[k].value # None) =>
                    /\ Notifications(k) = 1
                    /\ \A i \in 1..Len(sent) :
                        sent[i].key = k => sent[i].prev = "no record"

\* C9: once the notifier failed for a key, the run does not end in an
\* exception, the loop goes on past that key with its override recorded, and
\* the finished run has notified for every changed key and left in the file
\* the fresh record of every changed key, the failed ones included.
C9_NotifierFailureIsolation ==
    failed # {} =>
        /\ pc # "crashed"
        /\ InLoop =>
            /\ \A k \in failed : Processed(k) /\ Item(new_data, k) = FreshRec(k)
            /\ \A k \in Keys : (Processed(k) /\ Differs(k)) => Notifications(k) = 1
        /\ pc = "done" =>
            \A k \in Keys : Differs(k) => Entry(file, k) = FreshRec(k)
C9_Witness ==
    /\ pc = "done"
    /\ \E k1 \in failed : \E k2 \in Keys \ failed :
        /\ Pos(k1) < Pos(k2)
        /\ Notifications(k2) = 1
        /\ Entry(file, k1) = FreshRec(k1)
        /\ Entry(file, k2) = FreshRec(k2)

\* C10: a run interrupted after it handed messages to the notifier and before
\* its commit was complete leaves the file as it loaded it.
C10_InterruptKeepsBaseline ==
    (pc = "interrupted" /\ sent # << >>) => file = loaded

====
